---- MODULE Spec2Model ----
(***************************************************************************)
(* The review dashboard of r3viewer (src/src/App.tsx): the module-level    *)
(* array mockProjects, the four useState hooks of App, the derived         *)
(* filteredProjects and stats, the asynchronous handleAnalyzeProject and   *)
(* the detail Modal (src/src/components/ui/Modal.tsx).                     *)
(*                                                                         *)
(* Strings are sequences of characters.  A character is a one-letter       *)
(* string, except "sz", which stands for the single letter U+00DF (sharp   *)
(* s): JavaScript lower-cases it to itself and upper-cases it to "SS".     *)
(*                                                                         *)
(* Rendering follows React 18 (automatic batching): the component function *)
(* runs once after every event handler or promise continuation that set    *)
(* state, so what is on screen (view) is recomputed at the end of every    *)
(* action.                                                                 *)
(***************************************************************************)
EXTENDS Integers, Sequences, FiniteSets

VARIABLES
    mockProjects,     \* App.tsx:25 the working set, mutated in place at :122
    selectedProject,  \* App.tsx:101 reference into mockProjects (index), 0 = null
    isAnalyzing,      \* App.tsx:102
    searchTerm,       \* App.tsx:103
    filterStatus,     \* App.tsx:104
    timers,           \* pending setTimeout(resolve, 3000) of :116, each with the
                      \* projectId its handleAnalyzeProject call captured (FIFO:
                      \* all delays are equal)
    view,             \* what the last render computed: filteredProjects, stats
    modal,            \* Modal.tsx: what the last render of Modal left behind:
                      \* the dialog, its content, the keydown listener
    lastEvent,        \* history: the event the last step handled
    initialProjects,  \* history: the working set as supplied
    analyses          \* history: per record id, the handleAnalyzeProject calls

vars == <<mockProjects, selectedProject, isAnalyzing, searchTerm, filterStatus,
          timers, view, modal, lastEvent, initialProjects, analyses>>

\* The state the component owns or mutates (everything but the render output
\* and the history variable).
appState == <<mockProjects, selectedProject, isAnalyzing, searchTerm,
              filterStatus, timers>>

-----------------------------------------------------------------------------
\* Bounds

MaxProjects == 2

MaxFilterProjects == 2

MaxStatsProjects == 2

MaxTermLen == 2

MaxTimers == 2

-----------------------------------------------------------------------------
\* Values

Status == {"pending", "in-progress", "completed", "failed", "cancelled"}

FilterValues == {"all", "pending", "in-progress", "completed"}

\* Characters typed into the search Input in the filter runs.
Chars == {"s", "S", "sz"}

\* String.prototype.toLowerCase, one character: on these letters it keeps the
\* length and does not depend on the neighbours.
LowerChar(c) ==
    CASE c = "A" -> "a"
      [] c = "S" -> "s"
      [] OTHER   -> c

toLowerCase(str) == [i \in 1..Len(str) |-> LowerChar(str[i])]

\* String.prototype.includes
includes(str, sub) ==
    \E i \in 0..Len(str) :
        /\ i + Len(sub) <= Len(str)
        /\ SubSeq(str, i + 1, i + Len(sub)) = sub

\* JavaScript number results that may be NaN.
NaN == [isNaN |-> TRUE, value |-> 0]

Num(n) == [isNaN |-> FALSE, value |-> n]

-----------------------------------------------------------------------------
\* The project records

Project(id, name, title, score, status, type) ==
    [id           |-> id,
     studentName  |-> name,
     projectTitle |-> title,
     githubUrl    |-> <<"u", id>>,
     technology   |-> <<"t", id>>,
     score        |-> score,
     status       |-> status,
     type         |-> type,
     feedback     |-> <<"f", id>>,
     lastUpdated  |-> <<"l", id>>]

NamePool == << <<"S", "a">>, <<"a", "s", "s">>, <<"sz">> >>

TitlePool == << <<"a", "S">>, <<"s">> >>

ScorePool == <<99, 98, 96, 93>>

PoolAt(pool, i) == pool[((i - 1) % Len(pool)) + 1]

TypeAt(i) == IF i % 2 = 1 THEN "individual" ELSE "team"

\* (studentName, projectTitle) pairs of the records of the filter runs.
FilterTexts ==
    { << <<"s", "S">>, <<"sz">> >>,
      << <<"sz">>, <<"S">> >> }

\* Working sets of the filter runs: names, titles and statuses free.
FilterWorkingSets ==
    UNION {
        {[i \in 1..n |-> Project(i, tx[i][1], tx[i][2], PoolAt(ScorePool, i),
                                 st[i], TypeAt(i))]
            : tx \in [1..n -> FilterTexts], st \in [1..n -> Status]}
        : n \in 0..MaxFilterProjects}

\* Scores of the records of the statistics runs.
StatsScores == {0, 80, 93, 100}

\* Working sets of the statistics runs: scores and statuses free.
StatsWorkingSets ==
    UNION {
        {[i \in 1..n |-> Project(i, PoolAt(NamePool, i), PoolAt(TitlePool, i),
                                 sc[i], st[i], TypeAt(i))]
            : sc \in [1..n -> StatsScores], st \in [1..n -> Status]}
        : n \in 0..MaxStatsProjects}

\* Working sets of the dashboard: ids 1..n as in mockProjects, every record
\* status free, the display fields fixed per position.
WorkingSets ==
    UNION {
        {[i \in 1..n |-> Project(i, PoolAt(NamePool, i), PoolAt(TitlePool, i),
                                 PoolAt(ScorePool, i), st[i], TypeAt(i))]
            : st \in [1..n -> Status]}
        : n \in 0..MaxProjects}

-----------------------------------------------------------------------------
\* Derived values, recomputed by every render

\* matchesSearch with the term compared as typed.
matchesSearch_rawTerm(project, term) ==
    \/ includes(toLowerCase(project.studentName), term)
    \/ includes(toLowerCase(project.projectTitle), term)

\* App.tsx:107-108
matchesSearch(project, term) ==
    \/ includes(toLowerCase(project.studentName), toLowerCase(term))
    \/ includes(toLowerCase(project.projectTitle), toLowerCase(term))

\* App.tsx:109
matchesStatus(project, filter) ==
    filter = "all" \/ project.status = filter

\* App.tsx:106-111
filteredProjects(projects, term, filter) ==
    SelectSeq(projects,
              LAMBDA project : matchesSearch(project, term)
                               /\ matchesStatus(project, filter))

\* Array.prototype.filter(p => p.status === status).length
CountStatus(projects, status) ==
    Cardinality({i \in 1..Len(projects) : projects[i].status = status})

\* Array.prototype.reduce((acc, p) => acc + p.score, 0)
RECURSIVE SumScores(_)
SumScores(projects) ==
    IF projects = <<>> THEN 0
    ELSE Head(projects).score + SumScores(Tail(projects))

\* Math.round replaced by truncation.
MathRoundDiv_truncates(sum, count) ==
    IF count = 0 THEN NaN
    ELSE Num(sum \div count)

\* Math.round(sum / count) on integers: 0 / 0 is NaN and Math.round(NaN) is
\* NaN; otherwise the nearest integer, exact halves towards +Infinity.
MathRoundDiv(sum, count) ==
    IF count = 0 THEN NaN
    ELSE Num((2 * sum + count) \div (2 * count))

\* App.tsx:126-132
stats(projects) ==
    [total        |-> Len(projects),
     completed    |-> CountStatus(projects, "completed"),
     inProgress   |-> CountStatus(projects, "in-progress"),
     pending      |-> CountStatus(projects, "pending"),
     averageScore |-> MathRoundDiv(SumScores(projects), Len(projects))]

\* Render with the statistics taken over the filtered list.
Render_statsOfFiltered(projects, term, filter) ==
    [filteredProjects |-> filteredProjects(projects, term, filter),
     stats            |-> stats(filteredProjects(projects, term, filter))]

\* One run of the component function App.
Render(projects, term, filter) ==
    [filteredProjects |-> filteredProjects(projects, term, filter),
     stats            |-> stats(projects)]

Event(kind, id) == [kind |-> kind, id |-> id]

\* The card of mockProjects[i] is on screen (App.tsx:217).
CardShown(i) ==
    /\ i \in 1..Len(mockProjects)
    /\ \E k \in 1..Len(view.filteredProjects) :
           view.filteredProjects[k].id = mockProjects[i].id

\* An Analyze button on every card, whatever the status.
AnalyzeButtonShown_anyStatus(i) ==
    /\ i \in 1..Len(mockProjects)
    /\ \E k \in 1..Len(view.filteredProjects) :
           view.filteredProjects[k].id = mockProjects[i].id

\* App.tsx:251 the card of mockProjects[i] is on screen with an Analyze button
AnalyzeButtonShown(i) ==
    /\ i \in 1..Len(mockProjects)
    /\ \E k \in 1..Len(view.filteredProjects) :
           /\ view.filteredProjects[k].id = mockProjects[i].id
           /\ view.filteredProjects[k].status = "pending"

\* A dialog that keeps the content of its previous render while it stays
\* open: the selection as a copy of the record.
ModalRender_keepsDetail(selected, projects) ==
    [shown          |-> selected # 0,
     detail         |-> IF selected = 0 THEN <<>>
                        ELSE IF modal.shown
                                /\ modal.detail[1].id = projects[selected].id
                             THEN modal.detail
                             ELSE <<projects[selected]>>,
     escapeListener |-> selected # 0]

\* Modal.tsx:24-43 and App.tsx:276-337: the dialog is rendered, with the
\* fields of the selected record as its content, exactly when isOpen; the
\* effect attaches the keydown listener exactly when isOpen, and its closure
\* holds that isOpen.
ModalRender(selected, projects) ==
    [shown          |-> selected # 0,
     detail         |-> IF selected = 0 THEN <<>> ELSE <<projects[selected]>>,
     escapeListener |-> selected # 0]

\* Array.prototype.find(p => p.id === projectId): index of the first match,
\* 0 when there is none.
FindById(projects, projectId) ==
    LET hits == {i \in 1..Len(projects) : projects[i].id = projectId}
    IN  IF hits = {} THEN 0
        ELSE CHOOSE i \in hits : \A j \in hits : i <= j

-----------------------------------------------------------------------------
\* Initial states

InitUi ==
    /\ selectedProject = 0
    /\ isAnalyzing = FALSE
    /\ searchTerm = <<>>
    /\ filterStatus = "all"
    /\ timers = <<>>
    /\ view = Render(mockProjects, searchTerm, filterStatus)
    /\ modal = ModalRender(selectedProject, mockProjects)
    /\ lastEvent = Event("init", 0)
    /\ initialProjects = mockProjects
    /\ analyses = [i \in 1..Len(mockProjects) |-> 0]

Init ==
    /\ mockProjects \in WorkingSets
    /\ InitUi

-----------------------------------------------------------------------------
\* Events

\* setSearchTerm that also resets the status filter.
setSearchTerm_resetsFilter(term) ==
    /\ searchTerm' = term
    /\ filterStatus' = "all"
    /\ UNCHANGED <<mockProjects, selectedProject, isAnalyzing, timers>>
    /\ view' = Render(mockProjects', searchTerm', filterStatus')
    /\ modal' = ModalRender(selectedProject', mockProjects')
    /\ lastEvent' = Event("search", 0)
    /\ UNCHANGED <<initialProjects, analyses>>

\* App.tsx:197 onChange of the search Input
setSearchTerm(term) ==
    /\ searchTerm' = term
    /\ UNCHANGED <<mockProjects, selectedProject, isAnalyzing, filterStatus,
                   timers>>
    /\ view' = Render(mockProjects', searchTerm', filterStatus')
    /\ modal' = ModalRender(selectedProject', mockProjects')
    /\ lastEvent' = Event("search", 0)
    /\ UNCHANGED <<initialProjects, analyses>>

\* App.tsx:207 onClick of a filter Button
setFilterStatus(status) ==
    /\ filterStatus' = status
    /\ UNCHANGED <<mockProjects, selectedProject, isAnalyzing, searchTerm,
                   timers>>
    /\ view' = Render(mockProjects', searchTerm', filterStatus')
    /\ modal' = ModalRender(selectedProject', mockProjects')
    /\ lastEvent' = Event("filter", 0)
    /\ UNCHANGED <<initialProjects, analyses>>

\* App.tsx:247 onClick of "View Details" on the card of mockProjects[i]
setSelectedProject(i) ==
    /\ CardShown(i)
    /\ selectedProject' = i
    /\ UNCHANGED <<mockProjects, isAnalyzing, searchTerm, filterStatus, timers>>
    /\ view' = Render(mockProjects', searchTerm', filterStatus')
    /\ modal' = ModalRender(selectedProject', mockProjects')
    /\ lastEvent' = Event("select", mockProjects[i].id)
    /\ UNCHANGED <<initialProjects, analyses>>

\* App.tsx:278 and :328 onClose / Close: setSelectedProject(null)
onClose(kind) ==
    /\ selectedProject' = 0
    /\ UNCHANGED <<mockProjects, isAnalyzing, searchTerm, filterStatus, timers>>
    /\ view' = Render(mockProjects', searchTerm', filterStatus')
    /\ modal' = ModalRender(selectedProject', mockProjects')
    /\ lastEvent' = Event(kind, IF selectedProject = 0 THEN 0
                                ELSE mockProjects[selectedProject].id)
    /\ UNCHANGED <<initialProjects, analyses>>

\* Modal.tsx:43 the modal renders nothing unless isOpen (App.tsx:277)
isOpen == selectedProject # 0

\* Modal.tsx:60-63 backdrop, :83-86 header button, App.tsx:328 footer button:
\* they are on screen only in a rendered dialog
CloseClick(kind) ==
    /\ modal.shown
    /\ onClose(kind)

\* A keydown listener that never calls onClose.
handleEscape_neverCloses ==
    /\ UNCHANGED <<appState, view, modal, initialProjects, analyses>>
    /\ lastEvent' = Event("escape", 0)

\* Modal.tsx:25-32 a press of Escape: the listener, when attached, calls
\* onClose if the isOpen of its render is true
handleEscape ==
    IF modal.escapeListener /\ modal.shown
    THEN onClose("escape")
    ELSE /\ UNCHANGED <<appState, view, modal, initialProjects, analyses>>
         /\ lastEvent' = Event("escape", 0)

\* The Analyze button never disabled.
AnalyzeDisabled_never == FALSE

\* App.tsx:255 disabled={isAnalyzing}
AnalyzeDisabled == isAnalyzing

\* Button (components/ui/Button): the disabled prop reaches the DOM button,
\* and a disabled button dispatches no click.
ButtonDispatchesClick(disabled) == ~disabled

\* handleAnalyzeProject that marks the record in-progress when it starts.
handleAnalyzeProject_marksInProgress(projectId) ==
    /\ Len(timers) < MaxTimers
    /\ isAnalyzing' = TRUE
    /\ timers' = Append(timers, projectId)
    /\ mockProjects' =
           [i \in 1..Len(mockProjects) |->
               IF mockProjects[i].id = projectId
               THEN [mockProjects[i] EXCEPT !.status = "in-progress"]
               ELSE mockProjects[i]]
    /\ UNCHANGED <<selectedProject, searchTerm, filterStatus>>
    /\ view' = Render(mockProjects', searchTerm', filterStatus')
    /\ modal' = ModalRender(selectedProject', mockProjects')
    /\ lastEvent' = Event("analyze", projectId)
    /\ analyses' = [analyses EXCEPT ![projectId] = @ + 1]
    /\ UNCHANGED initialProjects

\* App.tsx:113-116 handleAnalyzeProject up to the await; MaxTimers bounds the
\* timers pending at once.
handleAnalyzeProject(projectId) ==
    /\ Len(timers) < MaxTimers
    /\ isAnalyzing' = TRUE
    /\ timers' = Append(timers, projectId)
    /\ UNCHANGED <<mockProjects, selectedProject, searchTerm, filterStatus>>
    /\ view' = Render(mockProjects', searchTerm', filterStatus')
    /\ modal' = ModalRender(selectedProject', mockProjects')
    /\ lastEvent' = Event("analyze", projectId)
    /\ analyses' = [analyses EXCEPT ![projectId] = @ + 1]
    /\ UNCHANGED initialProjects

\* App.tsx:251-259 a press of the Analyze button on the card of
\* mockProjects[i]: the button exists only while the record is pending, and a
\* disabled button dispatches no click.
AnalyzeClick(i) ==
    /\ AnalyzeButtonShown(i)
    /\ IF ButtonDispatchesClick(AnalyzeDisabled)
       THEN handleAnalyzeProject(mockProjects[i].id)
       ELSE /\ UNCHANGED <<appState, view, modal, initialProjects, analyses>>
            /\ lastEvent' = Event("analyzeDisabled", mockProjects[i].id)

\* MarkCompleted on the record shown in the detail view.
MarkCompleted_selected(projects, projectId) ==
    IF selectedProject = 0 THEN projects
    ELSE [projects EXCEPT ![selectedProject].status = "completed"]

\* MarkCompleted that completes every record.
MarkCompleted_all(projects, projectId) ==
    [i \in 1..Len(projects) |-> [projects[i] EXCEPT !.status = "completed"]]

\* App.tsx:119-123 find the record and set its status
MarkCompleted(projects, projectId) ==
    LET i == FindById(projects, projectId)
    IN  IF i = 0 THEN projects
        ELSE [projects EXCEPT ![i].status = "completed"]

\* TimerFires without setIsAnalyzing(false).
TimerFires_keepsFlag ==
    /\ timers # <<>>
    /\ mockProjects' = MarkCompleted(mockProjects, Head(timers))
    /\ timers' = Tail(timers)
    /\ UNCHANGED <<isAnalyzing, selectedProject, searchTerm, filterStatus>>
    /\ view' = Render(mockProjects', searchTerm', filterStatus')
    /\ modal' = ModalRender(selectedProject', mockProjects')
    /\ lastEvent' = Event("resolve", Head(timers))
    /\ UNCHANGED <<initialProjects, analyses>>

\* App.tsx:116-123 the timer fires and handleAnalyzeProject resumes
TimerFires ==
    /\ timers # <<>>
    /\ isAnalyzing' = FALSE
    /\ mockProjects' = MarkCompleted(mockProjects, Head(timers))
    /\ timers' = Tail(timers)
    /\ UNCHANGED <<selectedProject, searchTerm, filterStatus>>
    /\ view' = Render(mockProjects', searchTerm', filterStatus')
    /\ modal' = ModalRender(selectedProject', mockProjects')
    /\ lastEvent' = Event("resolve", Head(timers))
    /\ UNCHANGED <<initialProjects, analyses>>

\* Search terms typed in the dashboard runs.
UiTerms == {<<>>, <<"s", "s">>}

CloseKinds == {"backdrop", "closeButton", "footerClose"}

Next ==
    \/ \E term \in UiTerms : setSearchTerm(term)
    \/ \E status \in FilterValues : setFilterStatus(status)
    \/ \E i \in 1..Len(mockProjects) : setSelectedProject(i)
    \/ \E kind \in CloseKinds : CloseClick(kind)
    \/ handleEscape
    \/ \E i \in 1..Len(mockProjects) : AnalyzeClick(i)
    \/ TimerFires

Spec == Init /\ [][Next]_vars

\* The 3000 ms timer of a running page always fires.
FairSpec == Spec /\ WF_vars(TimerFires)

-----------------------------------------------------------------------------
\* The filter as a function of its inputs: every working set, every term

InitFilter ==
    /\ mockProjects \in FilterWorkingSets
    /\ InitUi

\* The search Input fires onChange at every keystroke: a character typed at
\* the end of the term, or the last character deleted.
TypeChar(c) ==
    /\ Len(searchTerm) < MaxTermLen
    /\ setSearchTerm(Append(searchTerm, c))

Backspace ==
    /\ searchTerm # <<>>
    /\ setSearchTerm(SubSeq(searchTerm, 1, Len(searchTerm) - 1))

NextFilter ==
    \/ \E c \in Chars : TypeChar(c)
    \/ Backspace
    \/ \E status \in FilterValues : setFilterStatus(status)

SpecFilter == InitFilter /\ [][NextFilter]_vars

-----------------------------------------------------------------------------
\* The statistics as a function of the working set: every score, every status

InitStats ==
    /\ mockProjects \in StatsWorkingSets
    /\ InitUi

NextStats ==
    \/ \E term \in UiTerms : setSearchTerm(term)
    \/ \E status \in FilterValues : setFilterStatus(status)

SpecStats == InitStats /\ [][NextStats]_vars

-----------------------------------------------------------------------------
\* Vocabulary of the properties

Chosen(status) == {i \in 1..Len(mockProjects) : mockProjects[i].status = status}

StatusOf(projectId) ==
    {mockProjects[i].status :
        i \in {j \in 1..Len(mockProjects) : mockProjects[j].id = projectId}}

\* String.prototype.toUpperCase, one character: U+00DF becomes the two
\* letters "SS" (Unicode SpecialCasing).
UpperChar(c) ==
    CASE c = "a"  -> <<"A">>
      [] c = "s"  -> <<"S">>
      [] c = "sz" -> <<"S", "S">>
      [] OTHER    -> <<c>>

RECURSIVE toUpperCase(_)
toUpperCase(str) ==
    IF str = <<>> THEN <<>>
    ELSE UpperChar(Head(str)) \o toUpperCase(Tail(str))

\* Two characters that are the same letter in either case.
SameLetter(c, d) ==
    c = d \/ UpperChar(c) = <<d>> \/ UpperChar(d) = <<c>>

\* term occurs in field as a case-insensitive substring.
ContainsIgnoringCase(field, term) ==
    \E i \in 0..(Len(field) - Len(term)) :
        \A k \in 1..Len(term) : SameLetter(field[i + k], term[k])

\* The two predicates of getFilteredProjects.
Satisfies(project, term, filter) ==
    /\ filter = "all" \/ project.status = filter
    /\ \/ term = <<>>
       \/ ContainsIgnoringCase(project.studentName, term)
       \/ ContainsIgnoringCase(project.projectTitle, term)

\* result is exactly the records of projects at the positions in keep, in
\* their original order.
IsSubsequenceAt(result, projects, keep) ==
    /\ Len(result) = Cardinality(keep)
    /\ \A k \in 1..Len(result) :
           \E i \in keep :
               /\ Cardinality({j \in keep : j < i}) = k - 1
               /\ result[k] = projects[i]

FilterIsExact ==
    IsSubsequenceAt(view.filteredProjects, mockProjects,
                    {i \in 1..Len(mockProjects) :
                        Satisfies(mockProjects[i], searchTerm, filterStatus)})

FailedOnlyUnderAll ==
    \A k \in 1..Len(view.filteredProjects) :
        view.filteredProjects[k].status \in {"failed", "cancelled"}
            => filterStatus = "all"

UpperCasedTermSameResult ==
    filteredProjects(mockProjects, toUpperCase(searchTerm), filterStatus)
        = view.filteredProjects

AsciiChars == {"a", "A", "s", "S"}

IsAscii(str) == \A i \in 1..Len(str) : str[i] \in AsciiChars

-----------------------------------------------------------------------------
\* Properties

\* C1: a press of an Analyze button while an analysis is in flight is a no-op:
\* it changes no record, neither flag nor criterion nor the selection, starts
\* no timer and leaves the screen as it is, so what follows is what follows
\* the first trigger alone.
C1_SecondTriggerIsNoOp ==
    [][(isAnalyzing /\ lastEvent'.kind \in {"analyze", "analyzeDisabled"})
           => (appState' = appState /\ view' = view)]_vars

\* C1 witness: the Analyze button of a second record was pressed while the
\* analysis of another record was in flight.
C1_Witness ==
    /\ lastEvent.kind = "analyzeDisabled"
    /\ isAnalyzing
    /\ timers # <<>>
    /\ lastEvent.id # Head(timers)

\* C2: isAnalyzing is true exactly while a triggered analysis has not
\* resolved.
C2_FlagIffOutstanding ==
    isAnalyzing <=> (timers # <<>>)

\* C2 witness: an analysis was just triggered and is outstanding.
C2_Witness ==
    /\ lastEvent.kind = "analyze"
    /\ isAnalyzing
    /\ timers = <<lastEvent.id>>

\* C3: the resolution of analyzeProject(id) sets the status of the record
\* with that id to completed and changes nothing else: every other record and
\* every other field of that record, the order and the length of the list are
\* as before.
C3_ResolveIsolated ==
    [][lastEvent'.kind = "resolve" =>
          /\ Len(mockProjects') = Len(mockProjects)
          /\ \E i \in 1..Len(mockProjects) : mockProjects[i].id = lastEvent'.id
          /\ \A i \in 1..Len(mockProjects) :
                 mockProjects'[i] =
                     IF mockProjects[i].id = lastEvent'.id
                     THEN [mockProjects[i] EXCEPT !.status = "completed"]
                     ELSE mockProjects[i]]_vars

\* C3 witness: an analysis resolved in a list of two records, and the other
\* record is not completed.
C3_Witness ==
    /\ lastEvent.kind = "resolve"
    /\ Len(mockProjects) = 2
    /\ StatusOf(lastEvent.id) = {"completed"}
    /\ \E i \in 1..2 : /\ mockProjects[i].id # lastEvent.id
                       /\ mockProjects[i].status = "pending"

\* C4: under fairness of the timer every analysis in flight resolves: the
\* flag falls, and the record whose id was triggered is completed.
C4_EventuallyResolves ==
    /\ isAnalyzing ~> ~isAnalyzing
    /\ \A id \in 1..MaxProjects :
           (isAnalyzing /\ timers # <<>> /\ Head(timers) = id)
               ~> (~isAnalyzing /\ StatusOf(id) = {"completed"})

\* C4 witness: the flag has fallen at the resolution of an analysis and the
\* record is completed.
C4_Witness ==
    /\ lastEvent.kind = "resolve"
    /\ ~isAnalyzing
    /\ timers = <<>>
    /\ StatusOf(lastEvent.id) = {"completed"}

\* C5 (as amended): the filtered list is exactly the subsequence of the
\* records that pass the status filter and contain the term, ignoring case,
\* in the student name or the project title; failed and cancelled records
\* appear only under "all"; an ASCII term and its upper-cased form give the
\* same list.
C5_Filter ==
    /\ FilterIsExact
    /\ FailedOnlyUnderAll
    /\ IsAscii(searchTerm) => UpperCasedTermSameResult

\* C5 witness: an upper-case term and the filter "completed" keep the first
\* of two records and drop a failed one.
C5_Witness ==
    /\ Len(mockProjects) = 2
    /\ mockProjects[2].status = "failed"
    /\ searchTerm = <<"S", "S">>
    /\ filterStatus = "completed"
    /\ Len(view.filteredProjects) = 1
    /\ view.filteredProjects[1] = mockProjects[1]

\* C5 as stated: the same, with every term and its upper-cased form giving
\* the same list.
C5_AsStated ==
    /\ FilterIsExact
    /\ FailedOnlyUnderAll
    /\ UpperCasedTermSameResult

\* C7 as stated: on an empty working set the statistics are all 0, the
\* average score included.
C7_EmptyAverageIsZero ==
    mockProjects = <<>> =>
        view.stats = [total |-> 0, completed |-> 0, inProgress |-> 0,
                      pending |-> 0, averageScore |-> Num(0)]

\* C8: the statistics are those of the full working set: total is its length,
\* and every search term and status filter gives the same statistics.
C8_StatsOverFullSet ==
    /\ view.stats.total = Len(mockProjects)
    /\ \A term \in UiTerms, status \in FilterValues :
           Render(mockProjects, term, status).stats = view.stats

\* C8 witness: criteria that filter every record out, with two records
\* counted.
C8_Witness ==
    /\ Len(mockProjects) = 2
    /\ lastEvent.kind \in {"search", "filter"}
    /\ view.filteredProjects = <<>>
    /\ view.stats.total = 2

\* C9: a step changes a record only in its status, only at the resolution of
\* an analysis of that record's id and only to completed; a completed record
\* stays completed; no record is added, removed or reordered.
C9_OnlyTransition ==
    [][/\ Len(mockProjects') = Len(mockProjects)
       /\ \A i \in 1..Len(mockProjects) :
              /\ [mockProjects'[i] EXCEPT !.status = "-"]
                     = [mockProjects[i] EXCEPT !.status = "-"]
              /\ mockProjects'[i].status # mockProjects[i].status
                     => /\ lastEvent'.kind = "resolve"
                        /\ lastEvent'.id = mockProjects[i].id
                        /\ mockProjects'[i].status = "completed"
              /\ mockProjects[i].status = "completed"
                     => mockProjects'[i].status = "completed"]_vars

\* C9 witness: an analysis resolved on one record while a failed record kept
\* its status.
C9_Witness ==
    /\ lastEvent.kind = "resolve"
    /\ StatusOf(lastEvent.id) = {"completed"}
    /\ Chosen("failed") # {}

\* C10: a search-term change leaves the records, the filter, the selection,
\* the flag and the pending analysis alone; a filter change leaves the
\* records, the term, the selection, the flag and the pending analysis alone.
C10_CriteriaFrame ==
    [][/\ lastEvent'.kind = "search" =>
              UNCHANGED <<mockProjects, filterStatus, selectedProject,
                          isAnalyzing, timers>>
       /\ lastEvent'.kind = "filter" =>
              UNCHANGED <<mockProjects, searchTerm, selectedProject,
                          isAnalyzing, timers>>]_vars

\* C10 witness: the term was changed while an analysis was in flight, a
\* project was selected and a filter was set.
C10_Witness ==
    /\ lastEvent.kind = "search"
    /\ searchTerm # <<>>
    /\ isAnalyzing
    /\ selectedProject # 0
    /\ filterStatus = "pending"

\* The sum of the scores of the first k records.
RECURSIVE ScoreTotal(_)
ScoreTotal(k) ==
    IF k = 0 THEN 0 ELSE ScoreTotal(k - 1) + mockProjects[k].score

\* a is x / n rounded to the nearest integer, an exact half rounded up:
\* a - 1/2 <= x / n < a + 1/2.
IsRoundHalfUp(a, x, n) ==
    /\ 2 * a * n - n <= 2 * x
    /\ 2 * x < 2 * a * n + n

\* C11: on a non-empty working set averageScore is the mean of the scores
\* rounded to the nearest integer, an exact half rounded up, and completed,
\* inProgress and pending count the records of exactly that status; a pending
\* record of score 80 and a completed one of score 100 give 2, 1, 0, 1, 90.
C11_Statistics ==
    /\ mockProjects # <<>> =>
          /\ ~view.stats.averageScore.isNaN
          /\ IsRoundHalfUp(view.stats.averageScore.value,
                           ScoreTotal(Len(mockProjects)), Len(mockProjects))
          /\ view.stats.completed = Cardinality(Chosen("completed"))
          /\ view.stats.inProgress = Cardinality(Chosen("in-progress"))
          /\ view.stats.pending = Cardinality(Chosen("pending"))
    /\ ( /\ Len(mockProjects) = 2
         /\ mockProjects[1].status = "pending" /\ mockProjects[1].score = 80
         /\ mockProjects[2].status = "completed" /\ mockProjects[2].score = 100 )
       => view.stats = [total |-> 2, completed |-> 1, inProgress |-> 0,
                        pending |-> 1, averageScore |-> Num(90)]

\* C11 witness: two records whose mean is an exact half, 86.5, shown as 87,
\* one of them failed and counted in no status count.
C11_Witness ==
    /\ Len(mockProjects) = 2
    /\ mockProjects[1].score = 80 /\ mockProjects[1].status = "failed"
    /\ mockProjects[2].score = 93 /\ mockProjects[2].status = "pending"
    /\ view.stats = [total |-> 2, completed |-> 0, inProgress |-> 0,
                     pending |-> 1, averageScore |-> Num(87)]
    /\ lastEvent.kind = "filter"

\* The card of the record with this id is in the rendered list.
InFilteredList(projectId) ==
    \E k \in 1..Len(view.filteredProjects) :
        view.filteredProjects[k].id = projectId

RECURSIVE AnalysesUpTo(_)
AnalysesUpTo(k) ==
    IF k = 0 THEN 0 ELSE AnalysesUpTo(k - 1) + analyses[k]

InitiallyPending ==
    {i \in 1..Len(initialProjects) : initialProjects[i].status = "pending"}

\* C12: the dialog is on screen exactly while a project is selected; View
\* Details opens it; Escape, the backdrop, the header button and the footer
\* Close button, which exist only in an open dialog, clear the selection and
\* close it; Escape with no dialog open changes nothing.
C12_ModalFollowsSelection ==
    /\ [](modal.shown <=> selectedProject # 0)
    /\ [][/\ lastEvent'.kind = "select" =>
                 (selectedProject' # 0 /\ modal'.shown)
          /\ lastEvent'.kind \in CloseKinds => modal.shown
          /\ (modal.shown /\ lastEvent'.kind \in CloseKinds \cup {"escape"}) =>
                 (selectedProject' = 0 /\ ~modal'.shown)
          /\ (~modal.shown /\ lastEvent'.kind = "escape") =>
                 UNCHANGED <<appState, view, modal>>]_vars

\* C12 witness: Escape closed the open detail view of a record.
C12_Witness ==
    /\ lastEvent.kind = "escape"
    /\ lastEvent.id # 0
    /\ selectedProject = 0
    /\ ~modal.shown

\* C13: an analysis starts only on a record whose card is in the filtered
\* list and whose status is pending; no record is analysed twice, and the
\* analyses never outnumber the records that were pending at the start.
C13_AnalyzeOnlyPending ==
    /\ [](/\ \A i \in DOMAIN analyses : analyses[i] <= 1
          /\ AnalysesUpTo(Len(mockProjects)) <= Cardinality(InitiallyPending))
    /\ [][lastEvent'.kind = "analyze" =>
              /\ InFilteredList(lastEvent'.id)
              /\ StatusOf(lastEvent'.id) = {"pending"}
              /\ analyses'[lastEvent'.id] = analyses[lastEvent'.id] + 1]_vars

\* C13 witness: both records were pending at the start and each has been
\* analysed once, the second after the first resolved.
C13_Witness ==
    /\ Len(mockProjects) = 2
    /\ Cardinality(InitiallyPending) = 2
    /\ analyses = <<1, 1>>
    /\ timers = <<>>
    /\ Chosen("completed") = {1, 2}

\* C14: the id an analysis captured when the button of a card was pressed
\* stays with it through every later event, and its resolution completes the
\* record of that id and no other, in the filtered list or not, selected or
\* not.
C14_ResolvesCapturedId ==
    [][/\ lastEvent'.kind = "analyze" =>
              timers' = Append(timers, lastEvent'.id)
       /\ lastEvent'.kind \notin {"analyze", "resolve"} => timers' = timers
       /\ lastEvent'.kind = "resolve" =>
              /\ timers # <<>>
              /\ timers' = Tail(timers)
              /\ \A i \in 1..Len(mockProjects) :
                     mockProjects'[i].status =
                         IF mockProjects[i].id = Head(timers)
                         THEN "completed"
                         ELSE mockProjects[i].status]_vars

\* C14 witness: the analysis of record 1 resolved while a search term kept
\* its card out of the list and the detail view showed record 2.
C14_Witness ==
    /\ lastEvent = Event("resolve", 1)
    /\ Len(mockProjects) = 2
    /\ mockProjects[1].status = "completed"
    /\ mockProjects[2].status = "pending"
    /\ searchTerm = <<"s", "s">>
    /\ ~InFilteredList(1)
    /\ selectedProject = 2

\* C15: the selection is null or a record of the working set, chosen from a
\* card of the filtered list; the detail view shows that record as it is now,
\* so once an analysis of it resolves the detail view shows completed.
C15_SelectionIsRecord ==
    /\ [](/\ selectedProject \in 0..Len(mockProjects)
          /\ selectedProject # 0 =>
                 modal.detail = <<mockProjects[selectedProject]>>)
    /\ [][/\ lastEvent'.kind = "select" =>
                 /\ InFilteredList(lastEvent'.id)
                 /\ selectedProject' \in 1..Len(mockProjects)
                 /\ mockProjects[selectedProject'].id = lastEvent'.id
          /\ ( /\ lastEvent'.kind = "resolve"
               /\ selectedProject' # 0
               /\ mockProjects'[selectedProject'].id = lastEvent'.id )
             => modal'.detail[1].status = "completed"]_vars

\* C15 witness: the analysis of the record in the detail view resolved, and
\* the detail view shows it completed.
C15_Witness ==
    /\ lastEvent.kind = "resolve"
    /\ selectedProject # 0
    /\ mockProjects[selectedProject].id = lastEvent.id
    /\ initialProjects[selectedProject].status = "pending"
    /\ modal.detail[1].status = "completed"

\* The working set was supplied with the statuses of the built-in data only.
BuiltInStatuses ==
    \A i \in 1..Len(initialProjects) :
        initialProjects[i].status \in {"pending", "in-progress", "completed"}

\* C16: from a working set of pending, in-progress and completed records the
\* three counts always add up to total, and each resolution moves one record
\* from pending to completed and leaves total, inProgress and averageScore.
C16_CountsAddUp ==
    /\ [](BuiltInStatuses =>
             view.stats.completed + view.stats.inProgress + view.stats.pending
                 = view.stats.total)
    /\ [][(BuiltInStatuses /\ lastEvent'.kind = "resolve") =>
              /\ view'.stats.completed = view.stats.completed + 1
              /\ view'.stats.pending = view.stats.pending - 1
              /\ view'.stats.total = view.stats.total
              /\ view'.stats.inProgress = view.stats.inProgress
              /\ view'.stats.averageScore = view.stats.averageScore]_vars

\* C16 witness: of a pending and an in-progress record the pending one was
\* analysed: one completed, one in progress, none pending.
C16_Witness ==
    /\ lastEvent.kind = "resolve"
    /\ BuiltInStatuses
    /\ Len(mockProjects) = 2
    /\ initialProjects[1].status = "pending"
    /\ initialProjects[2].status = "in-progress"
    /\ view.stats = [total |-> 2, completed |-> 1, inProgress |-> 1,
                     pending |-> 0,
                     averageScore |-> view.stats.averageScore]

====
